---- MODULE Spec2Model ----
(***************************************************************************)
(* Mission Control server (hammerman42AI/mission-control): the gateway     *)
(* WebSocket RPC client, the approvals ledger, the pipeline projection     *)
(* driven by log lines, and the polling log tailer, as one state machine.  *)
(* The model follows src/unnamed/part_001, the variant of the server that  *)
(* holds all of these components; the log rules of src/unnamed/part_000,   *)
(* whose tool rule arms a timer of its own, are modelled beside them.      *)
(*                                                                         *)
(* Time is counted in whole seconds.  Every armed setTimeout is a          *)
(* countdown; Tick lets one second pass and is possible only while no      *)
(* countdown has reached 0, so a due timer fires before more time passes,  *)
(* while I/O callbacks may still run before a due timer does.              *)
(***************************************************************************)
EXTENDS Naturals, Sequences, FiniteSets, TLC

VARIABLES
    pipelineActive,     \* state.pipeline.active ("idle" stands for null)
    gandalfCommand,     \* state.gandalf.command
    gandalfAssignment,  \* state.gandalf.assignment
    gandalfPing,        \* state.gandalf.ping
    workforce,          \* state.workforce: agent -> [task, ping]
    skills,             \* state.skills, most recent first
    approvalPending,    \* state.approvalPending
    approvals,          \* state.approvals, the ledger
    stageTimers,        \* armed auto-revert timers of processLogLine
    gwSocket,           \* the socket held by gw: "none", "connecting", "open"
    gwConnected,        \* gwConnected
    gwTimers,           \* armed setTimeout(connectGatewayWs, ...) countdowns
    rpcId,              \* rpcId, the next call id
    rpcPending,         \* rpcPending: the set of ids in the Map
    rpcTimers,          \* armed gwRequest timeouts: id -> seconds left
    calls,              \* every gateway call's promise (gwRequest; fetch
                        \* in the HTTP variant): id -> its state and caller
    file,               \* the bytes of the log file at logPath
    offset,             \* offset of the log watcher
    polls,              \* readNewData invocations in flight
    emitted,            \* history: the lines handed to processLogLine
    startSize,          \* history: the file's size when the watcher started
    watching,           \* setInterval(readNewData, 1000) was installed
    exists,             \* there is a file at logPath
    rotated,            \* the UTC date has changed since logPath was computed
    newFile,            \* the bytes of the log file at the new date's path
    env                 \* environment budgets of the specification being run

vars == <<pipelineActive, gandalfCommand, gandalfAssignment, gandalfPing,
          workforce, skills, approvalPending, approvals, stageTimers,
          gwSocket, gwConnected, gwTimers, rpcId, rpcPending, rpcTimers,
          calls, file, offset, polls, emitted, startSize, watching, exists,
          rotated, newFile, env>>

pipelineVars == <<pipelineActive, gandalfCommand, gandalfAssignment,
                  gandalfPing, workforce, skills, stageTimers>>
ledgerVars == <<approvalPending, approvals>>
socketVars == <<gwSocket, gwConnected, gwTimers>>
rpcVars == <<rpcId, rpcPending, rpcTimers, calls>>
watchVars == <<watching, exists, rotated, newFile>>
tailVars == <<file, offset, polls, emitted, startSize, watchVars>>

(***************************************************************************)
(* Bounds of the model and constants of the program.                       *)
(***************************************************************************)
MaxCalls == 2           \* gwRequest calls issued in one behaviour
MaxFreshIds == 25       \* distinct approval ids upserted in SpecLedger
MaxEdits == 1           \* repeated requests and resolutions in SpecLedger
MaxStageTimers == 2     \* auto-revert timers armed at once in SpecPipeline
MaxToolStarts == 1      \* tool-start lines logged in SpecPipeline
MaxPolls == 1           \* readNewData invocations in flight in SpecTailer
MaxEvents == 3          \* approval events and log lines in SpecApprovals
MaxDecisions == 1       \* decisions taken in SpecApprovals
MaxFile == 4            \* characters in the log file in SpecTailer

RpcTimeout == 10        \* seconds: setTimeout(..., 10000) in gwRequest
ReconnectDelay == 1     \* seconds: setTimeout(connectGatewayWs, 1000)
TokenRetryDelay == 5    \* seconds: setTimeout(connectGatewayWs, 5000)
ApprovalsCap == 20      \* state.approvals.slice(0, 20)

Commands == {"rm -rf build", "curl example.org"}
Decisions == {"allow-once", "deny"}
NoApproval == [id |-> 0, command |-> "none"]

Min(a, b) == IF a < b THEN a ELSE b

\* Array.prototype.slice(0, n)
Take(s, n) == SubSeq(s, 1, Min(n, Len(s)))

\* state.approvals.filter(a => a.id !== id)
\* a removal that drops the front entry whatever the id
WithoutId_Front(list, id) == IF list = << >> THEN list ELSE Tail(list)

WithoutId(list, id) == SelectSeq(list, LAMBDA a : a.id # id)

\* state.approvals.findIndex(a => a.id === id), 1-based; 0 stands for -1
IndexOfId(list, id) ==
    IF \E i \in 1..Len(list) : list[i].id = id
    THEN CHOOSE i \in 1..Len(list) :
             list[i].id = id /\ \A j \in 1..(i-1) : list[j].id # id
    ELSE 0

(***************************************************************************)
(* The approvals ledger.                                                   *)
(***************************************************************************)
\* { ...state.approvals[idx], ...item }: the item's fields overwrite
MergeEntry(old, item) == [old EXCEPT !.command = item.command]

\* approvalsUpsert without the slice(0, 20)
ApprovalsAfterUpsert_NoCap(list, item) ==
    IF item.id = 0 THEN list
    ELSE LET idx == IndexOfId(list, item.id)
         IN IF idx > 0 THEN [list EXCEPT ![idx] = MergeEntry(list[idx], item)]
            ELSE <<item>> \o list

\* approvalsUpsert: state.approvals after the call
ApprovalsAfterUpsert(list, item) ==
    IF item.id = 0 THEN list
    ELSE LET idx == IndexOfId(list, item.id)
             next == IF idx > 0
                     THEN [list EXCEPT ![idx] = MergeEntry(list[idx], item)]
                     ELSE <<item>> \o list
         IN Take(next, ApprovalsCap)

\* state.approvals[0] || null
Front(list) == IF list = <<>> THEN NoApproval ELSE list[1]

approvalsUpsert(item) ==
    /\ approvals' = ApprovalsAfterUpsert(approvals, item)
    /\ approvalPending' = IF item.id = 0 THEN approvalPending
                          ELSE Front(ApprovalsAfterUpsert(approvals, item))

approvalsRemove(id) ==
    /\ approvals' = WithoutId(approvals, id)
    /\ approvalPending' = Front(WithoutId(approvals, id))

(***************************************************************************)
(* Narrative texts written to state.gandalf.assignment.                    *)
(***************************************************************************)
ObservingText == "Observing Council of Elrond"
WaitingText == "GATE OF BREE: Waiting for Hammer's Mark..."
AllowedText == "Hammer's Mark received (allow-once). Proceeding."
DeniedText == "Entry denied. Task aborted."
NotConnectedText == "Gate of Bree error: Error: Gateway WS not connected"
TimeoutText ==
    "Gate of Bree error: Error: Gateway RPC timeout: exec.approval.resolve"
RpcErrorText == "Gate of Bree error: Error: RPC error"

\* `Gate of Bree resolved: ${data?.decision || 'ok'}`
ResolvedText(decision) ==
    CASE decision = "allow-once" -> "Gate of Bree resolved: allow-once"
      [] decision = "deny" -> "Gate of Bree resolved: deny"
      [] OTHER -> "Gate of Bree resolved: ok"

(***************************************************************************)
(* Stage timers.  A timer is [left, stale, to, agent]: the seconds left,   *)
(* the history flag stale, raised once a later handler has written         *)
(* state.pipeline.active, the stage its callback sets and the councilId    *)
(* its callback closes over ("" for none).                                 *)
(***************************************************************************)
Supersede(timers) == [i \in 1..Len(timers) |-> [timers[i] EXCEPT !.stale = TRUE]]

RemoveAt(s, i) == SubSeq(s, 1, i - 1) \o SubSeq(s, i + 1, Len(s))

(***************************************************************************)
(* The gateway socket: connectGatewayWs and the socket's callbacks.        *)
(***************************************************************************)
\* connectGatewayWs without the retry of its no-token branch
ConnectNoToken_NoRetry(timers) ==
    /\ gwTimers' = timers
    /\ UNCHANGED <<gwSocket, gwConnected>>

\* connectGatewayWs when getLiveGatewayToken() returns null
ConnectNoToken(timers) ==
    /\ gwTimers' = Append(timers, TokenRetryDelay)
    /\ UNCHANGED <<gwSocket, gwConnected>>

\* connectGatewayWs with a token: gw = new WebSocket(url)
ConnectWithToken(timers) ==
    /\ gwTimers' = timers
    /\ gwSocket' = "connecting"
    /\ UNCHANGED gwConnected

\* a due setTimeout(connectGatewayWs, ...) fires
GwTimerFire(i, token) ==
    /\ i \in 1..Len(gwTimers)
    /\ gwTimers[i] = 0
    /\ IF token THEN ConnectWithToken(RemoveAt(gwTimers, i))
       ELSE ConnectNoToken(RemoveAt(gwTimers, i))
    /\ UNCHANGED <<pipelineVars, ledgerVars, rpcVars, tailVars, env>>

\* gw.onopen
GwOpen ==
    /\ gwSocket = "connecting"
    /\ gwSocket' = "open"
    /\ gwConnected' = TRUE
    /\ UNCHANGED <<gwTimers, pipelineVars, ledgerVars, rpcVars, tailVars, env>>

\* gw.onclose without "gwConnected = false"
GwClose_StillConnected ==
    /\ gwSocket \in {"connecting", "open"}
    /\ gwSocket' = "none"
    /\ gwTimers' = Append(gwTimers, ReconnectDelay)
    /\ UNCHANGED <<gwConnected, rpcVars, pipelineVars, ledgerVars, tailVars,
                   env>>

\* gw.onclose
GwClose ==
    /\ gwSocket \in {"connecting", "open"}
    /\ gwSocket' = "none"
    /\ gwConnected' = FALSE
    /\ gwTimers' = Append(gwTimers, ReconnectDelay)
    /\ UNCHANGED <<rpcVars, pipelineVars, ledgerVars, tailVars, env>>

(***************************************************************************)
(* Gateway RPC.  calls[id] is the promise gwRequest returned for call id   *)
(* and the closure of the 'approve-decision' handler awaiting it:          *)
(* state is the promise's state, observed counts how many times the        *)
(* awaiting handler was resumed, aid and allow are the handler's data.     *)
(***************************************************************************)
\* new Promise((resolve, reject) => ...): only the first call of resolve or
\* reject settles the promise and resumes the awaiting handler
PromiseSettle(p, outcome) ==
    IF p.state = "pending"
    THEN [p EXCEPT !.state = outcome, !.observed = @ + 1]
    ELSE p

\* the 'approve-decision' handler after its await, resumed with `outcome`
AfterAwait(p, outcome, errText) ==
    IF PromiseSettle(p, outcome).observed = p.observed
    THEN UNCHANGED <<ledgerVars, gandalfAssignment>>
    ELSE IF outcome = "resolved"
         THEN /\ approvalsRemove(p.aid)
              /\ gandalfAssignment' = IF p.allow THEN AllowedText
                                      ELSE DeniedText
         ELSE /\ UNCHANGED ledgerVars
              /\ gandalfAssignment' = errText

\* the timeout callback of gwRequest with the reject left out
TimeoutSettle_NoReject(p) == p

\* the timeout callback of gwRequest: reject(new Error(...))
TimeoutSettle(p) == PromiseSettle(p, "rejected")

\* socket.on('approve-decision'): gwRequest('exec.approval.resolve', ...)
\* up to and including gwSend, which throws while not connected
ApproveDecision(aid, allow) ==
    /\ rpcId <= MaxCalls
    /\ LET id == rpcId
           p == [state |-> "pending", aid |-> aid, allow |-> allow,
                 observed |-> 0]
       IN /\ rpcId' = rpcId + 1
          /\ rpcTimers' = rpcTimers @@ (id :> RpcTimeout)
          /\ rpcPending' = rpcPending \cup {id}
          /\ IF gwConnected
             THEN /\ calls' = calls @@ (id :> p)
                  /\ UNCHANGED <<ledgerVars, gandalfAssignment>>
             ELSE /\ calls' = calls @@ (id :> PromiseSettle(p, "rejected"))
                  /\ AfterAwait(p, "rejected", NotConnectedText)
    /\ UNCHANGED <<pipelineActive, gandalfCommand, gandalfPing, workforce,
                   skills, stageTimers, socketVars, tailVars, env>>

\* the setTimeout callback armed by gwRequest fires
RpcTimeoutFire(id) ==
    /\ id \in DOMAIN rpcTimers
    /\ rpcTimers[id] = 0
    /\ rpcTimers' = [j \in DOMAIN rpcTimers \ {id} |-> rpcTimers[j]]
    /\ rpcPending' = rpcPending \ {id}
    /\ calls' = [calls EXCEPT ![id] = TimeoutSettle(@)]
    /\ IF TimeoutSettle(calls[id]) = calls[id]
       THEN UNCHANGED <<ledgerVars, gandalfAssignment>>
       ELSE AfterAwait(calls[id], "rejected", TimeoutText)
    /\ UNCHANGED <<rpcId, pipelineActive, gandalfCommand, gandalfPing,
                   workforce, skills, stageTimers, socketVars, tailVars, env>>

(***************************************************************************)
(* gw.onmessage.  A message is a record: json (JSON.parse succeeded), id   *)
(* (msg.id, 0 when it is not a number), ok ("undefined", "true", "false"), *)
(* result and error (present or not), event (msg.event || msg.type), and   *)
(* the event's data: aid (data.id || request.id, 0 when absent), command   *)
(* and decision.                                                           *)
(***************************************************************************)
IsRpcResponse(msg) ==
    msg.id # 0 /\ (msg.ok # "undefined" \/ msg.result \/ msg.error)

\* the "RPC response" branch
RpcResponse(msg) ==
    IF msg.id \notin rpcPending
    THEN UNCHANGED <<rpcVars, ledgerVars, gandalfAssignment>>
    ELSE LET outcome == IF msg.ok = "false" \/ msg.error THEN "rejected"
                        ELSE "resolved"
         IN /\ rpcTimers' = [j \in DOMAIN rpcTimers \ {msg.id} |-> rpcTimers[j]]
            /\ rpcPending' = rpcPending \ {msg.id}
            /\ calls' = [calls EXCEPT ![msg.id] = PromiseSettle(@, outcome)]
            /\ AfterAwait(calls[msg.id], outcome, RpcErrorText)
            /\ UNCHANGED rpcId

\* the 'exec.approval.requested' branch
ApprovalRequestedEvent(msg) ==
    /\ approvalsUpsert([id |-> msg.aid, command |-> msg.command])
    /\ pipelineActive' = "assignment"
    /\ gandalfAssignment' = WaitingText
    /\ gandalfPing' = TRUE
    /\ stageTimers' = Supersede(stageTimers)

\* the 'exec.approval.resolved' branch
ApprovalResolvedEvent(msg) ==
    /\ approvalsRemove(msg.aid)
    /\ gandalfAssignment' = ResolvedText(msg.decision)
    /\ UNCHANGED <<pipelineActive, gandalfPing, stageTimers>>

OnMessage(msg) ==
    /\ gwSocket = "open"
    /\ IF ~msg.json
       THEN UNCHANGED <<rpcVars, ledgerVars, gandalfAssignment,
                        pipelineActive, gandalfPing, stageTimers>>
       ELSE IF IsRpcResponse(msg)
       THEN /\ RpcResponse(msg)
            /\ UNCHANGED <<pipelineActive, gandalfPing, stageTimers>>
       ELSE IF msg.event = "exec.approval.requested"
       THEN /\ ApprovalRequestedEvent(msg)
            /\ UNCHANGED rpcVars
       ELSE IF msg.event = "exec.approval.resolved"
       THEN /\ ApprovalResolvedEvent(msg)
            /\ UNCHANGED rpcVars
       ELSE UNCHANGED <<rpcVars, ledgerVars, gandalfAssignment,
                        pipelineActive, gandalfPing, stageTimers>>
    /\ UNCHANGED <<gandalfCommand, workforce, skills, socketVars, tailVars>>

\* the messages of the model: replies, events, and messages that are both
ReplyFields == [ok : {"undefined", "true", "false"}, result : BOOLEAN,
                error : BOOLEAN]
Message(json, id, f, event, aid, command, decision) ==
    [json |-> json, id |-> id, ok |-> f.ok, result |-> f.result,
     error |-> f.error, event |-> event, aid |-> aid, command |-> command,
     decision |-> decision]
NoReply == [ok |-> "undefined", result |-> FALSE, error |-> FALSE]

(***************************************************************************)
(* processLogLine.  A log line is a record: blank (line.trim() is empty),  *)
(* json (JSON.parse succeeds), msg (the message text taken from log["1"],  *)
(* log["0"] or log.msg), subsystem, id (log.id || log.requestId, 0 when    *)
(* absent), command (log.command, "" when absent), kind (log.kind),        *)
(* metaName (which of 'main' and 'auditor' log._meta.name includes) and    *)
(* sessionId (log.sessionId).                                              *)
(***************************************************************************)
Messages ==
    {"", "embedded run tool start: tool=exec", "embedded run tool start",
     "embedded run tool end: tool=exec",
     "main embedded run tool start: tool=read",
     "main embedded run tool end: tool=read",
     "Approval required ID: 7", "Permission requested",
     "Received message", "Run completed"}

\* msg.includes(pattern): the patterns of processLogLine found in each
\* message text
Patterns(msg) ==
    CASE msg = "embedded run tool start: tool=exec" ->
             {"embedded run tool start"}
      [] msg = "embedded run tool start" -> {"embedded run tool start"}
      [] msg = "embedded run tool end: tool=exec" -> {"embedded run tool end"}
      [] msg = "main embedded run tool start: tool=read" ->
             {"main", "embedded run tool start"}
      [] msg = "main embedded run tool end: tool=read" ->
             {"main", "embedded run tool end"}
      [] msg = "Approval required ID: 7" -> {"Approval required"}
      [] msg = "Permission requested" -> {"Permission requested"}
      [] msg = "Received message" -> {"Received message"}
      [] msg = "Run completed" -> {"Run completed"}
      [] msg = "subagent embedded run tool start: tool=exec" ->
             {"subagent", "embedded run tool start"}
      [] msg = "subagent embedded run tool end: tool=exec" ->
             {"subagent", "embedded run tool end"}
      [] msg = "Approval required: embedded run tool start: tool=exec" ->
             {"Approval required", "embedded run tool start"}
      [] msg = "Calling tool exec" -> {"Calling tool"}
      [] msg = "main [tools] read" -> {"main", "[tools]"}
      [] OTHER -> {}

Includes(msg, pattern) == pattern \in Patterns(msg)

\* msg.match(/tool=(\w+)/): the tool name, "" for no match
ToolOf(msg) ==
    CASE msg = "embedded run tool start: tool=exec" -> "exec"
      [] msg = "embedded run tool end: tool=exec" -> "exec"
      [] msg = "main embedded run tool start: tool=read" -> "read"
      [] msg = "main embedded run tool end: tool=read" -> "read"
      [] msg = "subagent embedded run tool start: tool=exec" -> "exec"
      [] msg = "Approval required: embedded run tool start: tool=exec" -> "exec"
      [] msg = "subagent embedded run tool end: tool=exec" -> "exec"
      [] OTHER -> ""

\* msg.match(/ID: ([\w-]+)/) || msg.match(/id: ([\w-]+)/): 0 for no match
TextIdOf(msg) == IF msg = "Approval required ID: 7" THEN 7 ELSE 0

\* toolName ? `Executing ${toolName}...` : 'Executing task...'
TaskText(tool) ==
    CASE tool = "exec" -> "Executing exec..."
      [] tool = "read" -> "Executing read..."
      [] tool = "process" -> "Executing process..."
      [] OTHER -> "Executing task..."

\* `${councilId.toUpperCase()} is busy at the Forge.`
BusyText(councilId) ==
    CASE councilId = "celebrimbor" -> "CELEBRIMBOR is busy at the Forge."
      [] councilId = "samwise" -> "SAMWISE is busy at the Forge."
      [] councilId = "legolas" -> "LEGOLAS is busy at the Forge."
      [] OTHER -> "ELROND is busy at the Forge."

PendingText == "GATE OF BREE: Pending User Approval..."
SpokenText == "Hammer has spoken. Consulting the Council..."

ToolEndDwell == 3       \* seconds: setTimeout(..., 3000) after a tool end
DeliveryDwell == 5      \* seconds: setTimeout(..., 5000) after a run finish
SkillsCap == 10         \* if (state.skills.length > 10) state.skills.pop()

\* "Derive Agent/Council ID" with a subagent rule that names an agent of
\* its own
CouncilId_Subagent(log) ==
    IF Includes(log.msg, "subagent") \/ log.sessionId = "agent:subagent:1"
    THEN "subagent"
    ELSE IF "auditor" \in log.metaName THEN "celebrimbor"
    ELSE IF "main" \in log.metaName \/ Includes(log.msg, "main")
         THEN "samwise" ELSE "celebrimbor"

\* "Derive Agent/Council ID"
CouncilId(log) ==
    LET c1 == IF \/ "main" \in log.metaName
                 \/ Includes(log.msg, "main")
                 \/ Includes(log.msg, "sessionId=5166e84b")
                 \/ log.sessionId = "5166e84b-c182-419d-8a96-9e275fc464b7"
              THEN "samwise" ELSE "celebrimbor"
        c2 == IF "auditor" \in log.metaName THEN "celebrimbor" ELSE c1
    IN IF Includes(log.msg, "subagent") \/ log.sessionId = "agent:subagent:1"
       THEN "legolas" ELSE c2

\* setTimeout(() => { state.pipeline.active = null; ... }, dwell * 1000)
ArmStageTimer(timers, dwell) ==
    Append(timers, [left |-> dwell, stale |-> FALSE, to |-> "idle",
                    agent |-> ""])

\* state.skills.unshift(entry) without the pop
SkillsAfterUnshift_NoPop(list, entry) == <<entry>> \o list

\* state.skills.unshift(entry); if (state.skills.length > 10) pop()
SkillsAfterUnshift(list, entry) ==
    IF Len(list) + 1 > SkillsCap THEN SubSeq(<<entry>> \o list, 1, Len(list))
    ELSE <<entry>> \o list

IsToolStart(log) == Includes(log.msg, "embedded run tool start")
IsToolEnd(log) == Includes(log.msg, "embedded run tool end")
IsStructuredApproval(log) ==
    log.subsystem = "gateway/exec-approvals" /\ log.id # 0
IsTextApproval(log) ==
    Includes(log.msg, "Approval required")
        \/ Includes(log.msg, "Permission requested")
IsUserMessage(log) ==
    \/ Includes(log.msg, "Received message")
    \/ Includes(log.msg, "user_message")
    \/ log.kind = "user_message"
IsRunFinish(log) ==
    \/ Includes(log.msg, "Run completed")
    \/ Includes(log.msg, "run_finish")
    \/ log.kind = "run_finish"

\* the "embedded run tool start" branch
ToolStart(log) ==
    LET councilId == CouncilId(log)
        toolName == ToolOf(log.msg)
    IN /\ pipelineActive' = "execution"
       /\ workforce' = [workforce EXCEPT
              ![councilId] = [task |-> TaskText(toolName), ping |-> TRUE]]
       /\ gandalfAssignment' = BusyText(councilId)
       /\ skills' = SkillsAfterUnshift(skills,
              [user |-> councilId,
               skill |-> IF toolName = "" THEN "tool" ELSE toolName])
       /\ stageTimers' = Supersede(stageTimers)
       /\ UNCHANGED <<gandalfCommand, gandalfPing, approvalPending>>

\* the "embedded run tool end" branch without its setTimeout
ToolEnd_NoTimer(log) ==
    /\ workforce' = [workforce EXCEPT
           ![CouncilId(log)] = [task |-> "Idle", ping |-> FALSE]]
    /\ pipelineActive' = "reflection"
    /\ stageTimers' = Supersede(stageTimers)
    /\ UNCHANGED <<gandalfCommand, gandalfAssignment, gandalfPing, skills,
                   approvalPending>>

\* the "embedded run tool end" branch
ToolEnd(log) ==
    /\ workforce' = [workforce EXCEPT
           ![CouncilId(log)] = [task |-> "Idle", ping |-> FALSE]]
    /\ pipelineActive' = "reflection"
    /\ stageTimers' = ArmStageTimer(Supersede(stageTimers), ToolEndDwell)
    /\ UNCHANGED <<gandalfCommand, gandalfAssignment, gandalfPing, skills,
                   approvalPending>>

\* the structured "GATE OF BREE (Approvals)" branch
StructuredApproval(log) ==
    /\ approvalPending' =
           [id |-> log.id,
            command |-> IF log.command # "" THEN log.command
                        ELSE IF log.msg # "" THEN log.msg
                        ELSE "Restricted System Action"]
    /\ pipelineActive' = "assignment"
    /\ gandalfAssignment' = WaitingText
    /\ gandalfPing' = TRUE
    /\ stageTimers' = Supersede(stageTimers)
    /\ UNCHANGED <<gandalfCommand, workforce, skills>>

\* the "Catch textual approval requirements" branch
TextApproval(log) ==
    /\ approvalPending' =
           IF TextIdOf(log.msg) # 0
           THEN [id |-> TextIdOf(log.msg), command |-> log.msg]
           ELSE approvalPending
    /\ pipelineActive' = "assignment"
    /\ gandalfAssignment' = PendingText
    /\ gandalfPing' = TRUE
    /\ stageTimers' = Supersede(stageTimers)
    /\ UNCHANGED <<gandalfCommand, workforce, skills>>

\* the "PIPELINE STAGES" tail: the user-message if, then the run-finish if
PipelineStages(log) ==
    /\ pipelineActive' = IF IsRunFinish(log) THEN "delivery"
                         ELSE IF IsUserMessage(log) THEN "consultation"
                         ELSE pipelineActive
    /\ gandalfCommand' = IF IsUserMessage(log) THEN SpokenText
                         ELSE gandalfCommand
    /\ approvalPending' = IF IsRunFinish(log) THEN NoApproval
                          ELSE approvalPending
    /\ stageTimers' =
           IF IsRunFinish(log)
           THEN ArmStageTimer(Supersede(stageTimers), DeliveryDwell)
           ELSE IF IsUserMessage(log) THEN Supersede(stageTimers)
           ELSE stageTimers
    /\ UNCHANGED <<gandalfAssignment, gandalfPing, workforce, skills>>

processLogLine(log) ==
    /\ IF log.blank \/ ~log.json
       THEN UNCHANGED <<pipelineVars, approvalPending>>
       ELSE IF IsToolStart(log) THEN ToolStart(log)
       ELSE IF IsToolEnd(log) THEN ToolEnd(log)
       ELSE IF IsStructuredApproval(log) THEN StructuredApproval(log)
       ELSE IF IsTextApproval(log) THEN TextApproval(log)
       ELSE PipelineStages(log)
    /\ UNCHANGED <<approvals, socketVars, rpcVars>>

\* a due auto-revert timer that also clears the attention flag
StageTimerFire_ClearsPing(i) ==
    /\ i \in 1..Len(stageTimers)
    /\ stageTimers[i].left = 0
    /\ stageTimers[i].to = "idle"
    /\ pipelineActive' = "idle"
    /\ gandalfAssignment' = ObservingText
    /\ gandalfPing' = FALSE
    /\ stageTimers' = RemoveAt(stageTimers, i)
    /\ UNCHANGED <<gandalfCommand, workforce, skills,
                   ledgerVars, socketVars, rpcVars, tailVars, env>>

\* a due auto-revert timer fires
StageTimerFire(i) ==
    /\ i \in 1..Len(stageTimers)
    /\ stageTimers[i].left = 0
    /\ stageTimers[i].to = "idle"
    /\ pipelineActive' = "idle"
    /\ gandalfAssignment' = ObservingText
    /\ stageTimers' = RemoveAt(stageTimers, i)
    /\ UNCHANGED <<gandalfCommand, gandalfPing, workforce, skills,
                   ledgerVars, socketVars, rpcVars, tailVars, env>>

\* socket.on('manual-mission')
ManualMission(command) ==
    /\ pipelineActive' = "consultation"
    /\ gandalfCommand' = command
    /\ stageTimers' = Supersede(stageTimers)
    /\ UNCHANGED <<gandalfAssignment, gandalfPing, workforce, skills,
                   ledgerVars, socketVars, rpcVars, tailVars>>

(***************************************************************************)
(* processLogLine of src/unnamed/part_000, the variant of the server whose *)
(* tool rule starts the reflection dwell itself: the approval rules come   *)
(* first, a tool start is recognised by "Calling tool", "[tools]" or       *)
(* kind tool_start, and it arms a 3 s timer that sets the stage to         *)
(* reflection.  The approval rules and the PIPELINE STAGES tail are        *)
(* those of part_001, line for line.                                       *)
(***************************************************************************)
ToolStartDwell == 3     \* seconds: setTimeout(..., 3000) after a tool start

\* councilId of part_000: no session rules, no subagent rule
CouncilId_part000(log) ==
    LET c1 == IF "main" \in log.metaName \/ Includes(log.msg, "main")
              THEN "samwise" ELSE "celebrimbor"
    IN IF "auditor" \in log.metaName THEN "celebrimbor" ELSE c1

\* msg.match(/Calling tool (\w+)/), msg.match(/\[tools\] (\w+)/): the
\* captured name, 'tool' for no match
CalledToolOf(msg) ==
    CASE msg = "Calling tool exec" -> "exec"
      [] msg = "main [tools] read" -> "read"
      [] OTHER -> "tool"

\* toolName of part_000, "" for null; the lines modelled carry no log.tool
ToolName_part000(log) ==
    IF Includes(log.msg, "Calling tool") \/ Includes(log.msg, "[tools]")
    THEN CalledToolOf(log.msg)
    ELSE IF log.kind = "tool_start" THEN "process"
    ELSE ""

\* the "SKILL EXECUTION" branch
ToolStart_part000(log) ==
    LET councilId == CouncilId_part000(log)
        toolName == ToolName_part000(log)
    IN /\ pipelineActive' = "execution"
       /\ workforce' = [workforce EXCEPT
              ![councilId] = [task |-> TaskText(toolName), ping |-> TRUE]]
       /\ gandalfAssignment' = BusyText(councilId)
       /\ skills' = SkillsAfterUnshift(skills,
              [user |-> councilId, skill |-> toolName])
       /\ stageTimers' = Append(Supersede(stageTimers),
              [left |-> ToolStartDwell, stale |-> FALSE,
               to |-> "reflection", agent |-> councilId])
       /\ UNCHANGED <<gandalfCommand, gandalfPing, approvalPending>>

processLogLine_part000(log) ==
    /\ IF log.blank \/ ~log.json
       THEN UNCHANGED <<pipelineVars, approvalPending>>
       ELSE IF IsStructuredApproval(log) THEN StructuredApproval(log)
       ELSE IF IsTextApproval(log) THEN TextApproval(log)
       ELSE IF ToolName_part000(log) # "" THEN ToolStart_part000(log)
       ELSE PipelineStages(log)
    /\ UNCHANGED <<approvals, socketVars, rpcVars>>

\* a due reflection-dwell timer fires
DwellTimerFire(i) ==
    /\ i \in 1..Len(stageTimers)
    /\ stageTimers[i].left = 0
    /\ stageTimers[i].to = "reflection"
    /\ workforce' = [workforce EXCEPT ![stageTimers[i].agent].ping = FALSE]
    /\ pipelineActive' = "reflection"
    /\ stageTimers' = RemoveAt(stageTimers, i)
    /\ UNCHANGED <<gandalfCommand, gandalfAssignment, gandalfPing, skills,
                   ledgerVars, socketVars, rpcVars, tailVars, env>>

(***************************************************************************)
(* 'approve-decision' of the first server of src/server.mjs, which posts   *)
(* the decision to the gateway over HTTP.  Its processLogLine is that of   *)
(* part_000, line for line, and it keeps no ledger: state.approvalPending  *)
(* alone.  A call is one fetch; the gateway's answer is "ok" (a 2xx reply  *)
(* with a JSON body), "error" (a 4xx/5xx reply with a JSON body),          *)
(* "garbage" (a reply whose body is not JSON) or "failed" (no reply: the   *)
(* fetch promise rejects).  fetch has no timeout.                          *)
(***************************************************************************)
HttpAnswers == {"ok", "error", "garbage", "failed"}

HttpAllowedText == "Hammer's Mark received. Proceeding."

\* socket.on('approve-decision') up to its await fetch(...)
ApproveDecisionHttp(aid, allow) ==
    /\ Cardinality(DOMAIN calls) < MaxCalls
    /\ calls' = calls @@ (Cardinality(DOMAIN calls) + 1 :>
                    [state |-> "pending", aid |-> aid, allow |-> allow,
                     observed |-> 0])
    /\ UNCHANGED <<pipelineVars, ledgerVars, socketVars, rpcId, rpcPending,
                   rpcTimers, tailVars, env>>

\* the handler from await fetch(...) on: await response.json(), then the
\* state update, or the catch block, which only logs
FetchSettle(id, answer) ==
    /\ id \in DOMAIN calls
    /\ calls[id].state = "pending"
    /\ calls' = [calls EXCEPT
           ![id] = PromiseSettle(@, IF answer = "ok" THEN "resolved"
                                    ELSE "rejected")]
    /\ IF answer \in {"ok", "error"}
       THEN /\ approvalPending' = NoApproval
            /\ gandalfAssignment' = IF calls[id].allow THEN HttpAllowedText
                                    ELSE DeniedText
       ELSE UNCHANGED <<approvalPending, gandalfAssignment>>
    /\ UNCHANGED <<pipelineActive, gandalfCommand, gandalfPing, workforce,
                   skills, stageTimers, approvals, socketVars, rpcId,
                   rpcPending, rpcTimers, tailVars, env>>

(***************************************************************************)
(* The log watcher.  The file is a sequence of characters; a poll is one   *)
(* readNewData invocation on its way through fs.stat, fs.open and fs.read: *)
(* [phase, length, position].                                              *)
(***************************************************************************)
NL == "\n"

HasNL(s) == \E i \in 1..Len(s) : s[i] = NL

FirstNL(s) == CHOOSE i \in 1..Len(s) : s[i] = NL /\ \A j \in 1..(i-1) : s[j] # NL

\* chunk.split('\n')
RECURSIVE Split(_)
Split(s) ==
    IF ~HasNL(s) THEN <<s>>
    ELSE <<SubSeq(s, 1, FirstNL(s) - 1)>>
             \o Split(SubSeq(s, FirstNL(s) + 1, Len(s)))

\* line.trim() is not empty
NotBlank(line) == \E i \in 1..Len(line) : line[i] \notin {" ", NL}

\* the lines of a chunk that the for loop hands to processLogLine
LinesOf(chunk) == SelectSeq(Split(chunk), NotBlank)

\* buffer.toString('utf8', 0, bytesRead) after fs.read of `length` bytes at
\* `position`
ReadChunk(f, position, length) ==
    SubSeq(f, position + 1, Min(position + length, Len(f)))

\* setInterval(readNewData, 1000) fires: fs.stat is requested
PollStart ==
    /\ watching
    /\ polls' = Append(polls, [phase |-> "stat", length |-> 0, position |-> 0])
    /\ UNCHANGED <<file, offset, emitted, startSize, watchVars, pipelineVars,
                   ledgerVars, socketVars, rpcVars>>

\* the fs.stat callback
PollStat(i, err) ==
    /\ i \in 1..Len(polls)
    /\ polls[i].phase = "stat"
    /\ ~exists => err
    /\ polls' = IF err \/ Len(file) <= offset THEN RemoveAt(polls, i)
                ELSE [polls EXCEPT ![i] = [phase |-> "open",
                                           length |-> Len(file) - offset,
                                           position |-> 0]]
    /\ UNCHANGED <<file, offset, emitted, startSize, watchVars, pipelineVars,
                   ledgerVars, socketVars, rpcVars>>

\* the fs.open callback: fs.read(fd, buffer, 0, length, offset, ...)
PollOpen(i, openErr) ==
    /\ i \in 1..Len(polls)
    /\ polls[i].phase = "open"
    /\ ~exists => openErr
    /\ polls' = IF openErr THEN RemoveAt(polls, i)
                ELSE [polls EXCEPT ![i].phase = "read", ![i].position = offset]
    /\ UNCHANGED <<file, offset, emitted, startSize, watchVars, pipelineVars,
                   ledgerVars, socketVars, rpcVars>>

\* the fs.read callback without its "if (readErr || !bytesRead) return"
PollRead_NoReturn(i, readErr) ==
    /\ i \in 1..Len(polls)
    /\ polls[i].phase = "read"
    /\ polls' = RemoveAt(polls, i)
    /\ LET chunk == ReadChunk(file, polls[i].position, polls[i].length)
       IN /\ offset' = offset + polls[i].length
          /\ emitted' = emitted \o LinesOf(chunk)
    /\ UNCHANGED <<file, startSize, watchVars, pipelineVars, ledgerVars,
                   socketVars, rpcVars>>

\* the fs.read callback.  The lines of the model's alphabet are no JSON:
\* processLogLine leaves through its catch and changes no state.
PollRead(i, readErr) ==
    /\ i \in 1..Len(polls)
    /\ polls[i].phase = "read"
    /\ polls' = RemoveAt(polls, i)
    /\ LET chunk == ReadChunk(file, polls[i].position, polls[i].length)
       IN IF readErr \/ Len(chunk) = 0
          THEN UNCHANGED <<offset, emitted>>
          ELSE /\ offset' = offset + Len(chunk)
               /\ emitted' = emitted \o LinesOf(chunk)
    /\ UNCHANGED <<file, startSize, watchVars, pipelineVars, ledgerVars,
                   socketVars, rpcVars>>

\* the logger appends bytes to the file of the current date: the file at
\* logPath until the date changes, the file at the new date's path after
AppendToFile(bytes) ==
    /\ IF rotated
       THEN newFile' = newFile \o bytes /\ UNCHANGED <<file, exists>>
       ELSE file' = file \o bytes /\ exists' = TRUE /\ UNCHANGED newFile
    /\ UNCHANGED <<offset, polls, emitted, startSize, watching, rotated,
                   pipelineVars, ledgerVars, socketVars, rpcVars>>

\* the file at logPath is cut down to its first n bytes
TruncateFile(n) ==
    /\ exists
    /\ n < Len(file)
    /\ file' = SubSeq(file, 1, n)
    /\ UNCHANGED <<offset, polls, emitted, startSize, watchVars, pipelineVars,
                   ledgerVars, socketVars, rpcVars>>

\* midnight UTC: new Date().toISOString().split('T')[0] is another day
DateChange ==
    /\ ~rotated
    /\ rotated' = TRUE
    /\ UNCHANGED <<file, offset, polls, emitted, startSize, watching, exists,
                   newFile, pipelineVars, ledgerVars, socketVars, rpcVars>>

(***************************************************************************)
(* One second passes: every armed countdown loses a second.  No second     *)
(* passes while a countdown is at 0.                                       *)
(***************************************************************************)
Tick ==
    /\ \A id \in DOMAIN rpcTimers : rpcTimers[id] > 0
    /\ \A i \in 1..Len(gwTimers) : gwTimers[i] > 0
    /\ \A i \in 1..Len(stageTimers) : stageTimers[i].left > 0
    /\ rpcTimers' = [id \in DOMAIN rpcTimers |-> rpcTimers[id] - 1]
    /\ gwTimers' = [i \in 1..Len(gwTimers) |-> gwTimers[i] - 1]
    /\ stageTimers' = [i \in 1..Len(stageTimers) |->
                          [stageTimers[i] EXCEPT !.left = @ - 1]]
    /\ UNCHANGED <<pipelineActive, gandalfCommand, gandalfAssignment,
                   gandalfPing, workforce, skills, ledgerVars, gwSocket,
                   gwConnected, rpcId, rpcPending, calls, tailVars, env>>

(***************************************************************************)
(* The state after the module has loaded: the state object as declared,    *)
(* connectGatewayWs() called once, the log watcher started at end of file. *)
(***************************************************************************)
Agents == {"celebrimbor", "samwise", "legolas", "elrond"}

InitState ==
    /\ pipelineActive = "idle"
    /\ gandalfCommand = "Monitoring System Pulse..."
    /\ gandalfAssignment = ObservingText
    /\ gandalfPing = FALSE
    /\ workforce = [a \in Agents |-> [task |-> "Idle", ping |-> FALSE]]
    /\ skills = << >>
    /\ approvalPending = NoApproval
    /\ approvals = << >>
    /\ stageTimers = << >>

InitGateway ==
    /\ gwConnected = FALSE
    /\ \/ gwSocket = "connecting" /\ gwTimers = << >>
       \/ gwSocket = "none" /\ gwTimers = <<TokenRetryDelay>>
    /\ rpcId = 1
    /\ rpcPending = {}
    /\ rpcTimers = << >>
    /\ calls = << >>

InitTailer(files) ==
    /\ file \in files
    /\ offset = Len(file)
    /\ startSize = Len(file)
    /\ polls = << >>
    /\ emitted = << >>
    /\ exists = TRUE
    /\ watching = TRUE
    /\ rotated = FALSE
    /\ newFile = << >>

\* the log watcher when fs.existsSync(logPath) is false at load: only a
\* warning is logged
InitNoFile ==
    /\ file = << >>
    /\ offset = 0
    /\ startSize = 0
    /\ polls = << >>
    /\ emitted = << >>
    /\ exists = FALSE
    /\ watching = FALSE
    /\ rotated = FALSE
    /\ newFile = << >>

(***************************************************************************)
(* The inputs of the specifications.  env counts what the environment has  *)
(* done so far: fresh approval ids introduced (ids 1..env.fresh), and      *)
(* edits (repeated requests and resolutions) sent, tool-start lines        *)
(* logged (starts), the last two events logged (recent), whether the       *)
(* gateway is within reach (up), the events logged so far with their       *)
(* agents while there are no more than two of them (trail), and how the    *)
(* watcher's polls have fared: "failed" after a poll that failed,          *)
(* "recovered" after a read that followed one (poll).  The                 *)
(* handlers that take an input leave env to the specification that feeds   *)
(* them.                                                                   *)
(***************************************************************************)
NoBudget == [fresh |-> 0, edits |-> 0, starts |-> 0,
             recent |-> <<"none", "none">>, up |-> FALSE, trail |-> << >>,
             poll |-> "none"]

Reply(id, f) == Message(TRUE, id, f, "none", 0, "none", "none")
Requested(aid, c) ==
    Message(TRUE, 0, NoReply, "exec.approval.requested", aid, c, "none")
Resolved(aid, d) ==
    Message(TRUE, 0, NoReply, "exec.approval.resolved", aid, "none", d)

GatewayReplies ==
    {Reply(id, f) : id \in 1..MaxCalls, f \in ReplyFields \ {NoReply}}

GatewayOther ==
    {Message(FALSE, 0, NoReply, "none", 0, "none", "none"),
     Message(TRUE, 0, NoReply, "tick", 0, "none", "none")}

(***************************************************************************)
(* SpecRpc: the RPC client, an observer deciding on approval 1, and a      *)
(* gateway that answers, stays silent, or drops the connection.  A due     *)
(* timer callback is eventually run by the event loop, and time passes.    *)
(***************************************************************************)
InitRpc ==
    /\ InitState
    /\ InitGateway
    /\ InitTailer({<< >>})
    /\ env = NoBudget

NextRpc ==
    \/ \E allow \in BOOLEAN : ApproveDecision(1, allow)
    \/ \E msg \in GatewayReplies \cup GatewayOther :
          OnMessage(msg) /\ UNCHANGED env
    \/ GwOpen
    \/ GwClose
    \/ \E i \in 1..Len(gwTimers), token \in BOOLEAN : GwTimerFire(i, token)
    \/ \E id \in DOMAIN rpcTimers : RpcTimeoutFire(id)
    \/ Tick

TimerFairness ==
    /\ WF_vars(Tick)
    /\ WF_vars(\E id \in DOMAIN rpcTimers : RpcTimeoutFire(id))
    /\ WF_vars(\E i \in 1..Len(gwTimers), token \in BOOLEAN :
                  GwTimerFire(i, token))

SpecRpc == InitRpc /\ [][NextRpc]_vars /\ TimerFairness

(***************************************************************************)
(* SpecReconnect: SpecRpc with a gateway that comes and goes.  While the   *)
(* gateway is up (env.up), its token is in the configuration file and it   *)
(* accepts every connection attempt, so a connecting socket opens; an      *)
(* open socket may be lost at any time.  While it is down anything may     *)
(* happen.  A connecting socket of a gateway that is up eventually opens.  *)
(* The observer allows approval 1, time and again.                         *)
(***************************************************************************)
GatewayFlip ==
    /\ env' = [env EXCEPT !.up = ~@]
    /\ UNCHANGED <<pipelineVars, ledgerVars, socketVars, rpcVars, tailVars>>

NextReconnect ==
    \/ GatewayFlip
    \/ GwOpen
    \/ (gwSocket = "open" \/ ~env.up) /\ GwClose
    \/ \E i \in 1..Len(gwTimers), token \in BOOLEAN :
          (token \/ ~env.up) /\ GwTimerFire(i, token)
    \/ ApproveDecision(1, TRUE)
    \/ \E msg \in GatewayReplies : OnMessage(msg) /\ UNCHANGED env
    \/ \E id \in DOMAIN rpcTimers : RpcTimeoutFire(id)
    \/ Tick

ReconnectFairness ==
    /\ WF_vars(Tick)
    /\ WF_vars(\E id \in DOMAIN rpcTimers : RpcTimeoutFire(id))
    /\ WF_vars(\E i \in 1..Len(gwTimers), token \in BOOLEAN :
                  (token \/ ~env.up) /\ GwTimerFire(i, token))
    /\ WF_vars(env.up /\ GwOpen)

SpecReconnect == InitRpc /\ [][NextReconnect]_vars /\ ReconnectFairness

(***************************************************************************)
(* SpecLedger: an open gateway connection delivering approval events:      *)
(* requests for fresh ids 1, 2, ... in turn, and up to MaxEdits repeated   *)
(* requests or resolutions for any id.                                     *)
(***************************************************************************)
FreshCommand == "rm -rf build"

InitLedger ==
    /\ InitState
    /\ gwSocket = "open"
    /\ gwConnected = TRUE
    /\ gwTimers = << >>
    /\ rpcId = 1
    /\ rpcPending = {}
    /\ rpcTimers = << >>
    /\ calls = << >>
    /\ InitTailer({<< >>})
    /\ env = NoBudget

RequestFresh ==
    /\ env.fresh < MaxFreshIds
    /\ OnMessage(Requested(env.fresh + 1, FreshCommand))
    /\ env' = [env EXCEPT !.fresh = @ + 1]

RequestAgain ==
    /\ env.edits < MaxEdits
    /\ \E aid \in 0..env.fresh, c \in Commands : OnMessage(Requested(aid, c))
    /\ env' = [env EXCEPT !.edits = @ + 1]

Resolve ==
    /\ env.edits < MaxEdits
    /\ \E aid \in 0..(env.fresh + 1), d \in Decisions \cup {"none"} :
          OnMessage(Resolved(aid, d))
    /\ env' = [env EXCEPT !.edits = @ + 1]

NextLedger == RequestFresh \/ RequestAgain \/ Resolve

SpecLedger == InitLedger /\ [][NextLedger]_vars

(***************************************************************************)
(* SpecPipeline: log lines handed to processLogLine one at a time, manual  *)
(* missions from observers, and the auto-revert timers.  At most           *)
(* MaxStageTimers timers are armed at once and at most MaxToolStarts       *)
(* tool-start lines are logged.                                            *)
(***************************************************************************)
Line(msg) ==
    [blank |-> FALSE, json |-> TRUE, msg |-> msg, subsystem |-> "",
     id |-> 0, command |-> "", kind |-> "", metaName |-> {},
     sessionId |-> ""]

LogLines ==
    {Line(m) : m \in Messages \ {""}}
    \cup
    {[Line("") EXCEPT !.subsystem = "gateway/exec-approvals", !.id = 3,
                      !.command = "rm -rf build"],
     [Line("") EXCEPT !.kind = "run_finish"],
     [Line("Received message") EXCEPT !.kind = "run_finish"],
     [Line("Received message") EXCEPT !.json = FALSE],
     [Line("") EXCEPT !.blank = TRUE, !.json = FALSE]}

Parsed(log) == ~log.blank /\ log.json

\* the rule of processLogLine a line falls under, named by the event
EventKind(log) ==
    IF ~Parsed(log) THEN "none"
    ELSE IF IsToolStart(log) THEN "ToolStarted"
    ELSE IF IsToolEnd(log) THEN "ToolEnded"
    ELSE IF IsStructuredApproval(log) \/ IsTextApproval(log)
         THEN "ApprovalRequested"
    ELSE IF IsRunFinish(log) THEN "RunFinished"
    ELSE IF IsUserMessage(log) THEN "UserMessage"
    ELSE "none"

\* what env.recent keeps of an event
Recent(kind) ==
    IF kind \in {"ToolStarted", "UserMessage"} THEN kind ELSE "other"

ArmsTimer(log) == EventKind(log) \in {"ToolEnded", "RunFinished"}

\* the number of events env.trail keeps
MaxTrail == 2

Untold(trail) == IF Len(trail) = 0 THEN TRUE ELSE trail[1].kind # "more"

\* env.trail after one more event: MaxTrail events are kept, one more turns
\* the trail into the single mark "more"
Trail(trail, kind, agent) ==
    IF kind = "none" THEN trail
    ELSE IF Len(trail) < MaxTrail /\ Untold(trail)
         THEN Append(trail, [kind |-> kind, agent |-> agent])
         ELSE <<[kind |-> "more", agent |-> ""]>>

InitPipeline ==
    /\ InitState
    /\ InitGateway
    /\ gwSocket = "connecting"
    /\ InitTailer({<< >>})
    /\ env = NoBudget

LogLine ==
    \E log \in LogLines :
        /\ ArmsTimer(log) => Len(stageTimers) < MaxStageTimers
        /\ EventKind(log) = "ToolStarted" => env.starts < MaxToolStarts
        /\ processLogLine(log)
        /\ env' = [env EXCEPT
               !.starts = IF EventKind(log) = "ToolStarted" THEN @ + 1 ELSE @,
               !.recent = IF EventKind(log) = "none" THEN @
                          ELSE <<@[2], Recent(EventKind(log))>>,
               !.trail = Trail(@, EventKind(log), CouncilId(log))]
        /\ UNCHANGED tailVars

Mission ==
    /\ ManualMission("Legolas, go and look for current threats")
    /\ env' = [env EXCEPT !.recent = <<@[2], "other">>,
                          !.trail = Trail(@, "ManualMission", "")]

NextPipeline ==
    \/ LogLine
    \/ Mission
    \/ \E i \in 1..Len(stageTimers) : StageTimerFire(i)
    \/ Tick

SpecPipeline == InitPipeline /\ [][NextPipeline]_vars

(***************************************************************************)
(* The short runs of the pipeline: the log and the mission endpoint bring  *)
(* events while the trail still tells every one of them, and the timers    *)
(* run on afterwards.                                                      *)
(***************************************************************************)
NextShort ==
    \/ Untold(env.trail) /\ LogLine
    \/ Untold(env.trail) /\ Mission
    \/ \E i \in 1..Len(stageTimers) : StageTimerFire(i)
    \/ Tick

SpecShort == InitPipeline /\ [][NextShort]_vars

(***************************************************************************)
(* SpecTies: the short runs of the pipeline with a line whose text matches *)
(* an approval pattern and the tool-start pattern at once.                 *)
(***************************************************************************)
TieLine == Line("Approval required: embedded run tool start: tool=exec")

Tie ==
    /\ Untold(env.trail)
    /\ EventKind(TieLine) = "ToolStarted" => env.starts < MaxToolStarts
    /\ processLogLine(TieLine)
    /\ env' = [env EXCEPT
           !.starts = IF EventKind(TieLine) = "ToolStarted" THEN @ + 1 ELSE @,
           !.trail = Trail(@, EventKind(TieLine), CouncilId(TieLine))]
    /\ UNCHANGED tailVars

NextTies == Tie \/ NextShort

SpecTies == InitPipeline /\ [][NextTies]_vars

(***************************************************************************)
(* SpecAgents: tool-start and tool-end lines whose agent is hinted at by   *)
(* log._meta.name, log.sessionId and the message text in every            *)
(* combination.  A tool-end line comes when the dwell of the one before    *)
(* has elapsed.                                                            *)
(***************************************************************************)
MainSession == "5166e84b-c182-419d-8a96-9e275fc464b7"
SubagentSession == "agent:subagent:1"

AgentMessages ==
    {"embedded run tool start: tool=exec", "embedded run tool end: tool=exec",
     "main embedded run tool start: tool=read",
     "main embedded run tool end: tool=read",
     "subagent embedded run tool start: tool=exec",
     "subagent embedded run tool end: tool=exec"}

AgentLines ==
    {[Line(m) EXCEPT !.metaName = n, !.sessionId = s] :
        m \in AgentMessages, n \in SUBSET {"main", "auditor"},
        s \in {"", MainSession, SubagentSession}}

AgentLine ==
    \E log \in AgentLines :
        /\ ArmsTimer(log) => stageTimers = << >>
        /\ EventKind(log) = "ToolStarted" => env.starts < MaxToolStarts
        /\ processLogLine(log)
        /\ env' = [env EXCEPT
               !.starts = IF EventKind(log) = "ToolStarted" THEN @ + 1 ELSE @]
        /\ UNCHANGED tailVars

NextAgents ==
    \/ AgentLine
    \/ \E i \in 1..Len(stageTimers) : StageTimerFire(i)
    \/ Tick

SpecAgents == InitPipeline /\ [][NextAgents]_vars

(***************************************************************************)
(* The activity log under a long run of tool starts: the log brings up to  *)
(* MaxSkillStarts tool-start lines, enough to overflow state.skills.       *)
(***************************************************************************)
MaxSkillStarts == 11

StartLines == {log \in LogLines : EventKind(log) = "ToolStarted"}

StartLine ==
    /\ env.starts < MaxSkillStarts
    /\ \E log \in StartLines : processLogLine(log)
    /\ env' = [env EXCEPT !.starts = @ + 1]
    /\ UNCHANGED tailVars

SpecSkills == InitPipeline /\ [][StartLine]_vars

(***************************************************************************)
(* The pipeline projection of part_000 alone: log lines through its        *)
(* processLogLine, manual missions, and both kinds of stage timer.         *)
(***************************************************************************)
LogLines_part000 ==
    {Line(m) : m \in {"Calling tool exec", "main [tools] read",
                      "Approval required ID: 7", "Received message",
                      "Run completed"}}
    \cup
    {[Line("") EXCEPT !.kind = "tool_start"],
     [Line("") EXCEPT !.subsystem = "gateway/exec-approvals", !.id = 3,
                      !.command = "rm -rf build"],
     [Line("") EXCEPT !.blank = TRUE, !.json = FALSE]}

\* the rule of part_000's processLogLine a line falls under
EventKind_part000(log) ==
    IF ~Parsed(log) THEN "none"
    ELSE IF IsStructuredApproval(log) \/ IsTextApproval(log)
         THEN "ApprovalRequested"
    ELSE IF ToolName_part000(log) # "" THEN "ToolStarted"
    ELSE IF IsRunFinish(log) THEN "RunFinished"
    ELSE IF IsUserMessage(log) THEN "UserMessage"
    ELSE "none"

LogLine_part000 ==
    \E log \in LogLines_part000 :
        LET kind == EventKind_part000(log)
        IN /\ kind \in {"ToolStarted", "RunFinished"} =>
                  Len(stageTimers) < MaxStageTimers
           /\ kind = "ToolStarted" => env.starts < MaxToolStarts
           /\ processLogLine_part000(log)
           /\ env' = [env EXCEPT
                  !.starts = IF kind = "ToolStarted" THEN @ + 1 ELSE @,
                  !.recent = IF kind = "none" THEN @
                             ELSE <<@[2], Recent(kind)>>]
           /\ UNCHANGED tailVars

NextPipeline_part000 ==
    \/ LogLine_part000
    \/ Mission
    \/ \E i \in 1..Len(stageTimers) : StageTimerFire(i)
    \/ \E i \in 1..Len(stageTimers) : DwellTimerFire(i)
    \/ Tick

SpecPipeline_part000 == InitPipeline /\ [][NextPipeline_part000]_vars

(***************************************************************************)
(* SpecHttp: the HTTP variant with approval requests and user messages in  *)
(* the log, an observer deciding on the approvals logged, and a gateway    *)
(* that answers each post in one of the four ways, or never.               *)
(***************************************************************************)
HttpLines ==
    {Line("Approval required ID: 7"), Line("Received message"),
     [Line("") EXCEPT !.subsystem = "gateway/exec-approvals", !.id = 3,
                      !.command = "rm -rf build"]}

HttpLogLine ==
    \E log \in HttpLines :
        processLogLine_part000(log) /\ UNCHANGED <<tailVars, env>>

NextHttp ==
    \/ HttpLogLine
    \/ \E aid \in {3, 7}, allow \in BOOLEAN : ApproveDecisionHttp(aid, allow)
    \/ \E id \in 1..MaxCalls, answer \in HttpAnswers : FetchSettle(id, answer)

SpecHttp == InitPipeline /\ [][NextHttp]_vars

(***************************************************************************)
(* SpecApprovals: approvals from both sources and the operator's           *)
(* decisions on them.  The gateway sends approval events for ids 1 and 2   *)
(* and answers, ignores or drops calls; the log carries approval lines     *)
(* (ids 3 and 7, or none) and run-finish lines; an observer decides on     *)
(* approval 1 or 3.                                                        *)
(* env.edits counts the events and log lines so far.                       *)
(***************************************************************************)
ApprovalEvents ==
    {Requested(aid, c) : aid \in 1..2, c \in Commands}
    \cup {Resolved(aid, "allow-once") : aid \in 1..2}

ApprovalLines ==
    {Line("Approval required ID: 7"), Line("Permission requested"),
     [Line("") EXCEPT !.subsystem = "gateway/exec-approvals", !.id = 3,
                      !.command = "rm -rf build"],
     [Line("") EXCEPT !.kind = "run_finish"]}

ApprovalEvent ==
    /\ env.edits < MaxEvents
    /\ \E msg \in ApprovalEvents : OnMessage(msg)
    /\ env' = [env EXCEPT !.edits = @ + 1]

ApprovalLine ==
    /\ env.edits < MaxEvents
    /\ \E log \in ApprovalLines :
          /\ ArmsTimer(log) => Len(stageTimers) < MaxStageTimers
          /\ processLogLine(log)
    /\ env' = [env EXCEPT !.edits = @ + 1]
    /\ UNCHANGED tailVars

Decide ==
    /\ Cardinality(DOMAIN calls) < MaxDecisions
    /\ \E aid \in {1, 3}, allow \in BOOLEAN : ApproveDecision(aid, allow)

GatewayReply == \E msg \in GatewayReplies : OnMessage(msg) /\ UNCHANGED env

NextApprovals ==
    \/ ApprovalEvent
    \/ ApprovalLine
    \/ Decide
    \/ GatewayReply
    \/ GwClose
    \/ GwOpen
    \/ \E i \in 1..Len(gwTimers) : GwTimerFire(i, TRUE)
    \/ \E id \in DOMAIN rpcTimers : RpcTimeoutFire(id)
    \/ \E i \in 1..Len(stageTimers) : StageTimerFire(i)
    \/ Tick

SpecApprovals == InitLedger /\ [][NextApprovals]_vars

(***************************************************************************)
(* SpecEnvelope: an open gateway connection whose approval events may also *)
(* carry a numeric id and reply fields, beside the calls of an observer    *)
(* deciding on approval 1 and their timeouts.                              *)
(***************************************************************************)
OkTrue == [ok |-> "true", result |-> FALSE, error |-> FALSE]

Envelopes ==
    {Message(TRUE, id, f, "exec.approval.requested", aid, FreshCommand, "none") :
        id \in 0..MaxCalls, f \in {NoReply, OkTrue}, aid \in 1..2}
    \cup
    {Message(TRUE, id, f, "exec.approval.resolved", aid, "none", "allow-once") :
        id \in 0..MaxCalls, f \in {NoReply, OkTrue}, aid \in 1..2}

Envelope ==
    /\ env.edits < MaxEvents
    /\ \E msg \in Envelopes : OnMessage(msg)
    /\ env' = [env EXCEPT !.edits = @ + 1]

NextEnvelope ==
    \/ Envelope
    \/ \E allow \in BOOLEAN : ApproveDecision(1, allow)
    \/ \E id \in DOMAIN rpcTimers : RpcTimeoutFire(id)
    \/ Tick

SpecEnvelope == InitLedger /\ [][NextEnvelope]_vars

(***************************************************************************)
(* SpecAttention: the short runs of the whole server with an open gateway  *)
(* connection: the gateway's events for approval 1, a log line of every    *)
(* rule of processLogLine, a manual mission, the operator's decision on    *)
(* approval 1 (one call) and the gateway's answer to it, and the timers.   *)
(***************************************************************************)
AttentionEvents == {Requested(1, FreshCommand), Resolved(1, "allow-once")}

AttentionLines ==
    {Line("embedded run tool start: tool=exec"),
     Line("embedded run tool end: tool=exec"),
     Line("Approval required ID: 7"),
     [Line("") EXCEPT !.subsystem = "gateway/exec-approvals", !.id = 3,
                      !.command = "rm -rf build"],
     Line("Received message"), Line("Run completed")}

GatewayEvent ==
    /\ Untold(env.trail)
    /\ \E msg \in AttentionEvents :
          /\ OnMessage(msg)
          /\ env' = [env EXCEPT !.trail = Trail(@, msg.event, "")]

AttentionLine ==
    /\ Untold(env.trail)
    /\ \E log \in AttentionLines :
          /\ processLogLine(log)
          /\ env' = [env EXCEPT
                 !.trail = Trail(@, EventKind(log), CouncilId(log))]
    /\ UNCHANGED tailVars

DecideShort ==
    /\ Untold(env.trail)
    /\ calls = << >>
    /\ \E allow \in BOOLEAN : ApproveDecision(1, allow)

Answer ==
    /\ \E id \in rpcPending, f \in {OkTrue, [OkTrue EXCEPT !.ok = "false"]} :
          OnMessage(Reply(id, f))
    /\ UNCHANGED env

NextAttention ==
    \/ GatewayEvent
    \/ AttentionLine
    \/ Untold(env.trail) /\ Mission
    \/ DecideShort
    \/ Answer
    \/ \E id \in DOMAIN rpcTimers : RpcTimeoutFire(id)
    \/ \E i \in 1..Len(stageTimers) : StageTimerFire(i)
    \/ Tick

SpecAttention == InitLedger /\ [][NextAttention]_vars

(***************************************************************************)
(* SpecTailer: a logger appending to the file a character at a time, and   *)
(* the watcher's polls, at most MaxPolls of them in flight, any of whose   *)
(* file system calls may fail.                                             *)
(***************************************************************************)
Alphabet == {"a", "b", NL}

InitTailerSpec ==
    /\ InitState
    /\ InitGateway
    /\ gwSocket = "connecting"
    /\ InitTailer({<< >>, <<"a", NL>>})
    /\ env = NoBudget

Poll ==
    /\ Len(polls) < MaxPolls
    /\ PollStart
    /\ UNCHANGED env

Write ==
    /\ Len(file) < MaxFile
    /\ \E c \in Alphabet : AppendToFile(<<c>>)
    /\ UNCHANGED env

NextTailer ==
    \/ Poll
    \/ Write
    \/ \E i \in 1..Len(polls), err \in BOOLEAN : PollStat(i, err) /\ UNCHANGED env
    \/ \E i \in 1..Len(polls), err \in BOOLEAN : PollOpen(i, err) /\ UNCHANGED env
    \/ \E i \in 1..Len(polls), err \in BOOLEAN : PollRead(i, err) /\ UNCHANGED env

SpecTailer == InitTailerSpec /\ [][NextTailer]_vars

(***************************************************************************)
(* The watcher and the life of the log file.  The interval timer fires     *)
(* every second, and a file system call that can succeed does succeed      *)
(* time and again.                                                         *)
(***************************************************************************)
StatOk == \E i \in 1..Len(polls) : PollStat(i, FALSE) /\ UNCHANGED env
OpenOk == \E i \in 1..Len(polls) : PollOpen(i, FALSE) /\ UNCHANGED env
ReadOk == \E i \in 1..Len(polls) : PollRead(i, FALSE) /\ UNCHANGED env

PollFairness ==
    /\ WF_vars(Poll)
    /\ SF_vars(StatOk)
    /\ SF_vars(OpenOk)
    /\ SF_vars(ReadOk)

\* SpecOverlap: SpecTailer with up to MaxOverlap polls in flight: a tick of
\* the interval comes before the callbacks of the tick before have run
MaxOverlap == 2

PollOver ==
    /\ Len(polls) < MaxOverlap
    /\ PollStart
    /\ UNCHANGED env

NextOverlap ==
    \/ PollOver
    \/ Write
    \/ \E i \in 1..Len(polls), err \in BOOLEAN : PollStat(i, err) /\ UNCHANGED env
    \/ \E i \in 1..Len(polls), err \in BOOLEAN : PollOpen(i, err) /\ UNCHANGED env
    \/ \E i \in 1..Len(polls), err \in BOOLEAN : PollRead(i, err) /\ UNCHANGED env

SpecOverlap == InitTailerSpec /\ [][NextOverlap]_vars

\* SpecStartup: SpecTailer from a load whose fs.statSync may throw: the
\* catch logs the error and the offset stays at its initial 0
InitStartup ==
    /\ InitState
    /\ InitGateway
    /\ gwSocket = "connecting"
    /\ file \in {<< >>, <<"a", NL>>}
    /\ \E statErr \in BOOLEAN : offset = IF statErr THEN 0 ELSE Len(file)
    /\ startSize = Len(file)
    /\ polls = << >>
    /\ emitted = << >>
    /\ exists = TRUE
    /\ watching = TRUE
    /\ rotated = FALSE
    /\ newFile = << >>
    /\ env = NoBudget

SpecStartup == InitStartup /\ [][NextTailer]_vars

\* SpecTruncate: SpecTailer with a file that may be cut down at any time
Truncate ==
    /\ \E n \in 0..Len(file) : TruncateFile(n)
    /\ UNCHANGED env

NextTruncate == NextTailer \/ Truncate

SpecTruncate == InitTailerSpec /\ [][NextTruncate]_vars

\* SpecRotate: the date changes once; the logger writes lines of a's
\* before and lines of b's after, as log records carry their date
WriteDated ==
    /\ Len(file) + Len(newFile) < MaxFile
    /\ \E c \in {IF rotated THEN "b" ELSE "a", NL} : AppendToFile(<<c>>)
    /\ UNCHANGED env

Midnight == DateChange /\ UNCHANGED env

NextRotate ==
    \/ Poll
    \/ WriteDated
    \/ Midnight
    \/ \E i \in 1..Len(polls), err \in BOOLEAN : PollStat(i, err) /\ UNCHANGED env
    \/ \E i \in 1..Len(polls), err \in BOOLEAN : PollOpen(i, err) /\ UNCHANGED env
    \/ \E i \in 1..Len(polls), err \in BOOLEAN : PollRead(i, err) /\ UNCHANGED env

SpecRotate == InitTailerSpec /\ [][NextRotate]_vars /\ PollFairness

\* SpecRetry: a watcher whose polls end within the second, a file that is
\* written and cut down up to MaxEdits times, env.poll telling how the
\* polls have fared, and the file system calls succeeding again and again
ZeroBytes(i) == ReadChunk(file, polls[i].position, polls[i].length) = << >>

StatStep(err) ==
    /\ \E i \in 1..Len(polls) : PollStat(i, err)
    /\ env' = [env EXCEPT !.poll = IF err THEN "failed" ELSE @]

OpenStep(openErr) ==
    /\ \E i \in 1..Len(polls) : PollOpen(i, openErr)
    /\ env' = [env EXCEPT !.poll = IF openErr THEN "failed" ELSE @]

ReadStep(readErr) ==
    \E i \in 1..Len(polls) :
        /\ PollRead(i, readErr)
        /\ env' = [env EXCEPT !.poll =
                      IF readErr \/ ZeroBytes(i) THEN "failed"
                      ELSE IF @ = "failed" THEN "recovered" ELSE @]

Cut ==
    /\ env.edits < MaxEdits
    /\ \E n \in 0..Len(file) : TruncateFile(n)
    /\ env' = [env EXCEPT !.edits = @ + 1]

WriteLine ==
    /\ Len(file) < MaxFile
    /\ \E c \in {"a", NL} : AppendToFile(<<c>>)
    /\ UNCHANGED env

PollAlone ==
    /\ polls = << >>
    /\ PollStart
    /\ UNCHANGED env

NextRetry ==
    \/ PollAlone
    \/ WriteLine
    \/ Cut
    \/ \E err \in BOOLEAN : StatStep(err)
    \/ \E err \in BOOLEAN : OpenStep(err)
    \/ \E err \in BOOLEAN : ReadStep(err)

RetryFairness ==
    /\ WF_vars(PollAlone)
    /\ SF_vars(StatStep(FALSE))
    /\ SF_vars(OpenStep(FALSE))
    /\ SF_vars(ReadStep(FALSE))

SpecRetry == InitTailerSpec /\ [][NextRetry]_vars /\ RetryFairness

\* SpecAbsent: the server is loaded with or without a file at logPath; the
\* logger's first write creates the file
InitAbsent ==
    /\ InitState
    /\ InitGateway
    /\ gwSocket = "connecting"
    /\ InitNoFile \/ InitTailer({<< >>})
    /\ env = NoBudget

SpecAbsent == InitAbsent /\ [][NextTailer]_vars /\ PollFairness

(***************************************************************************)
(* Claims about the gateway RPC client (SpecRpc).                          *)
(***************************************************************************)
Issued(id) == id \in DOMAIN calls

\* C1: whatever the interleaving of reply, 10 s timeout and connection
\* close, the caller of a gwRequest call is resumed by exactly one
\* settlement: never by two, and every issued call is eventually settled.
C1_ExactlyOneSettlement ==
    /\ [](\A id \in DOMAIN calls :
             /\ calls[id].observed <= 1
             /\ (calls[id].observed = 1) = (calls[id].state # "pending"))
    /\ \A id \in 1..MaxCalls :
          Issued(id) ~> (Issued(id) /\ calls[id].observed = 1)

\* a call resolved by its reply, and another rejected by its timeout after
\* the connection had closed under it
C1_Witness ==
    /\ \E id \in DOMAIN calls : calls[id].state = "resolved"
    /\ \E id \in DOMAIN calls :
          /\ calls[id].state = "rejected"
          /\ calls[id].observed = 1
          /\ id \notin rpcPending
    /\ gandalfAssignment = TimeoutText
    /\ ~gwConnected

\* C8: when the connection closes, every call in the pending-call table is
\* rejected in the same step, and the table is empty right after onclose.
C8_CloseRejectsPending ==
    [][GwClose =>
          \A id \in rpcPending :
              calls[id].state = "pending" =>
                  /\ calls'[id].state = "rejected"
                  /\ id \notin rpcPending']_vars

\* C9: a gwRequest issued while disconnected is rejected at once and leaves
\* neither a pending-call entry nor an armed timeout behind.
C9_DisconnectedCallLeavesNothing ==
    [][\A allow \in BOOLEAN :
          (~gwConnected /\ ApproveDecision(1, allow)) =>
              /\ calls'[rpcId].state = "rejected"
              /\ rpcId \notin rpcPending'
              /\ rpcId \notin DOMAIN rpcTimers']_vars

\* C10: the pending-call table holds exactly the ids of the calls issued
\* and not yet settled, and a reply for an id that is not pending (timed
\* out, or never issued) changes no state.
C10_PendingIsUnsettled ==
    [][/\ rpcPending' = {id \in DOMAIN calls' : calls'[id].state = "pending"}
       /\ \A msg \in GatewayReplies :
             (OnMessage(msg) /\ ~(Issued(msg.id) /\ calls[msg.id].state = "pending"))
                 => UNCHANGED <<rpcVars, ledgerVars, pipelineVars>>]_vars

(***************************************************************************)
(* Claims about the approvals ledger (SpecLedger).                         *)
(***************************************************************************)
\* the ids n, n-1, ..., most recent first, cut to the capacity
MostRecent(n) == [i \in 1..Min(n, ApprovalsCap) |-> n + 1 - i]

IdsOf(list) == [i \in 1..Len(list) |-> list[i].id]

\* C6: the ledger never holds more than 20 entries, and after requests for
\* n pairwise distinct ids alone (n up to 25 and beyond) it holds exactly
\* the 20 most recently upserted ids, most recent first.
C6_LedgerBound ==
    /\ Len(approvals) <= ApprovalsCap
    /\ env.edits = 0 => IdsOf(approvals) = MostRecent(env.fresh)

\* 25 distinct ids were upserted into the empty ledger: ids 25 down to 6
\* remain
C6_Witness ==
    /\ env.fresh = 25
    /\ env.edits = 0
    /\ Len(approvals) = 20
    /\ approvals[1].id = 25
    /\ approvals[20].id = 6

\* C7: after any approvalsUpsert of an id, that id is at index 0 of the
\* ledger and is the current pending approval, also when the id was
\* already in the ledger.
C7_UpsertMovesToFront ==
    [][\A aid \in 1..MaxFreshIds, c \in Commands :
          OnMessage(Requested(aid, c)) =>
              /\ approvals'[1].id = aid
              /\ approvalPending'.id = aid]_vars

(***************************************************************************)
(* Claims about the pipeline projection (SpecPipeline).                    *)
(***************************************************************************)
\* C2: an auto-revert timer armed by ToolEnded (3 s) or RunFinished (5 s)
\* changes neither the stage nor the narrative when it fires after another
\* stage-changing event was processed since it was armed.
C2_StaleTimerChangesNothing ==
    [][\A i \in 1..Len(stageTimers) :
          (stageTimers[i].stale /\ StageTimerFire(i)) =>
              /\ pipelineActive' = pipelineActive
              /\ gandalfAssignment' = gandalfAssignment]_vars

\* C3: once a ToolStarted event and then a UserMessage event were the last
\* events processed and every pending timer has fired, the stage is
\* Consultation.
C3_ConsultationSurvives ==
    (env.recent = <<"ToolStarted", "UserMessage">> /\ stageTimers = << >>)
        => pipelineActive = "consultation"

(***************************************************************************)
(* Claims about the log watcher (SpecTailer).                              *)
(***************************************************************************)
\* what was appended to the file since the watcher started
Appended == SubSeq(file, startSize + 1, Len(file))

\* the newline-terminated lines of s: all that split yields but the last
CompleteLines(s) == SubSeq(Split(s), 1, Len(Split(s)) - 1)

IsPrefix(s, t) == Len(s) <= Len(t) /\ SubSeq(t, 1, Len(s)) = s

\* the number of characters of s up to and including its last newline
UpToLastNL(s) ==
    IF HasNL(s) THEN CHOOSE i \in 1..Len(s) :
                         s[i] = NL /\ \A j \in (i+1)..Len(s) : s[j] # NL
    ELSE 0

\* s up to and including its last newline
UpToNL(s) == SubSeq(s, 1, UpToLastNL(s))

\* C4: the lines handed to processLogLine are, in file order and once each,
\* newline-terminated lines of the file: none is emitted before its
\* newline is in the file, and the offset never counts the bytes of an
\* unterminated trailing fragment as consumed.
C4_OnlyCompleteLinesEmitted ==
    /\ IsPrefix(emitted, SelectSeq(CompleteLines(Appended), NotBlank))
    /\ offset - startSize <= UpToLastNL(Appended)

\* C5: once every appended byte has been seen, the lines emitted over any
\* number of polls are the lines one poll over the whole append emits, the
\* (non-blank) lines of the appended content up to its last newline.
C5_PollGranularityIndependent ==
    (polls = << >> /\ offset = Len(file) /\ offset = UpToLastNL(file)) =>
        /\ emitted = LinesOf(Appended)
        /\ emitted = SelectSeq(CompleteLines(Appended), NotBlank)


(***************************************************************************)
(* Claims about the operator's decision (SpecHttp, SpecApprovals).         *)
(***************************************************************************)
\* a call completes successfully in this step
SomeCallSucceeds ==
    \E id \in DOMAIN calls' :
        /\ calls'[id].state = "resolved"
        /\ id \in DOMAIN calls => calls[id].state # "resolved"

\* C11: a step of the approve-decision handler (one that issues or settles
\* a gateway call) in which no call completes successfully leaves the
\* ledger and the current pending approval as they were: the approval is
\* removed only after the gateway call succeeded, never on issue, error
\* reply, timeout or disconnection.
C11_RemovedOnlyAfterSuccess ==
    [][(calls' # calls /\ ~SomeCallSucceeds) => UNCHANGED ledgerVars]_vars


(***************************************************************************)
(* Claims about the rule cascade of processLogLine (SpecPipeline).         *)
(***************************************************************************)
\* the user-message rule is the first rule in the order that matches log
UserMessageFirst(log) ==
    /\ Parsed(log)
    /\ ~IsToolStart(log) /\ ~IsToolEnd(log)
    /\ ~IsStructuredApproval(log) /\ ~IsTextApproval(log)
    /\ IsUserMessage(log)

\* C12: a line is handled by the first rule that matches it alone: a line
\* whose first match is the user-message rule, the run-finish pattern in
\* it or not, sets the stage to Consultation, arms no timer and leaves
\* the pending approval alone.
C12_FirstMatchOnly ==
    [][\A log \in LogLines :
          (UserMessageFirst(log) /\ processLogLine(log)) =>
              /\ pipelineActive' = "consultation"
              /\ Len(stageTimers') = Len(stageTimers)
              /\ approvalPending' = approvalPending]_vars


\* C13: a non-blank line that is not JSON goes through the same text rules
\* as a structured line carrying that text as its message: processing it
\* changes the state as processing the structured line would.
C13_UnparsedLineMatched ==
    [][\A log \in LogLines :
          (~log.blank /\ ~log.json /\ processLogLine(log)) =>
              processLogLine([log EXCEPT !.json = TRUE])]_vars


(***************************************************************************)
(* Claims about reconnection (SpecReconnect).                              *)
(***************************************************************************)
\* C14: whenever the client holds no socket (the connection was lost, the
\* attempt failed, or there was no token) a connectGatewayWs timer is
\* armed, however many attempts came before; that timer comes due, or a
\* socket is being connected; and if from some point on the gateway stays
\* up, the client is connected again and again.
C14_ReconnectLiveness ==
    /\ [](gwSocket = "none" => Len(gwTimers) > 0)
    /\ (gwSocket = "none") ~>
           (gwSocket = "connecting" \/ (Len(gwTimers) > 0 /\ gwTimers[1] = 0))
    /\ <>[](env.up) => []<>gwConnected

\* connected, after call 1 was answered over an earlier connection and a
\* later call was refused for want of one: the client has reconnected
C14_Witness ==
    /\ gwConnected
    /\ \E id \in DOMAIN calls, id2 \in DOMAIN calls :
          /\ id < id2
          /\ calls[id].state = "resolved"
          /\ calls[id2].state = "rejected"
          /\ id2 \in rpcPending


(***************************************************************************)
(* Claims about truncation, rotation and absence of the log file           *)
(* (SpecTruncate, SpecRotate, SpecAbsent).                                 *)
(***************************************************************************)
\* C15: a poll whose fs.stat finds the file smaller than the offset takes
\* it for a truncation and resets the offset to 0, so that what is written
\* after the truncation is read from the start of the file.
C15_TruncationResetsOffset ==
    [][\A i \in 1..Len(polls) :
          (Len(file) < offset /\ PollStat(i, FALSE)) => offset' = 0]_vars

\* some line handed to processLogLine holds a character c
EmittedHolds(c) ==
    \E k \in 1..Len(emitted) : \E j \in 1..Len(emitted[k]) : emitted[k][j] = c

\* C16: once the date has changed, the watcher follows the file at the new
\* date's path: a line completed in the new file is eventually emitted.
C16_RotationFollowed ==
    (rotated /\ Len(LinesOf(UpToNL(newFile))) > 0) ~> EmittedHolds("b")

\* C17: a file missing when the server is loaded and created later is
\* polled all the same: a line completed in it is eventually emitted.
C17_AbsentFileAwaited ==
    (exists /\ Len(LinesOf(UpToNL(file))) > 0) ~> (Len(emitted) > 0)


(***************************************************************************)
(* Claims about the ledger and the pending approval (SpecApprovals).       *)
(***************************************************************************)
LedgerIds == {approvals[i].id : i \in 1..Len(approvals)}

\* C18: approvalsRemove of an id that is not in the ledger, here on an
\* exec.approval.resolved event, leaves the ledger and the current pending
\* approval as they were, wherever the pending approval came from.
C18_RemoveAbsentIsNoOp ==
    [][\A aid \in 1..2 :
          (aid \notin LedgerIds /\ OnMessage(Resolved(aid, "allow-once")))
              => UNCHANGED ledgerVars]_vars

\* C19: the current pending approval is the front entry of the ledger, and
\* is none exactly when the ledger is empty.
C19_PendingIsFront == approvalPending = Front(approvals)


\* the approval id a log line asks about, 0 for none
LineApprovalId(log) ==
    IF IsStructuredApproval(log) THEN log.id ELSE TextIdOf(log.msg)

\* a call deciding on approval aid completes successfully in this step
DecisionSucceeds(aid) ==
    \E id \in DOMAIN calls :
        /\ calls[id].aid = aid
        /\ calls[id].state = "pending"
        /\ calls'[id].state = "resolved"

\* C20: an approval request with an id, from the gateway or from the log,
\* puts an entry for that id into the ledger, sets the stage to assignment
\* and raises the attention flag; and an entry leaves the ledger only on
\* an exec.approval.resolved event for its id or a successful decision on
\* it (no more than 20 ids are ever in play here).
C20_RequestsEnterLedger ==
    [][/\ \A msg \in ApprovalEvents :
             (msg.event = "exec.approval.requested" /\ OnMessage(msg)) =>
                 /\ msg.aid \in {approvals'[i].id : i \in 1..Len(approvals')}
                 /\ pipelineActive' = "assignment"
                 /\ gandalfPing'
       /\ \A log \in ApprovalLines :
             (LineApprovalId(log) # 0 /\ processLogLine(log)) =>
                 /\ LineApprovalId(log) \in
                        {approvals'[i].id : i \in 1..Len(approvals')}
                 /\ pipelineActive' = "assignment"
                 /\ gandalfPing'
       /\ \A aid \in LedgerIds :
             aid \notin {approvals'[i].id : i \in 1..Len(approvals')} =>
                 \/ OnMessage(Resolved(aid, "allow-once"))
                 \/ DecisionSucceeds(aid)]_vars

\* the same for the requests of the gateway alone
C20_GatewayRequestsOnly ==
    [][/\ \A msg \in ApprovalEvents :
             (msg.event = "exec.approval.requested" /\ OnMessage(msg)) =>
                 /\ msg.aid \in {approvals'[i].id : i \in 1..Len(approvals')}
                 /\ pipelineActive' = "assignment"
                 /\ gandalfPing'
       /\ \A aid \in LedgerIds :
             aid \notin {approvals'[i].id : i \in 1..Len(approvals')} =>
                 \/ OnMessage(Resolved(aid, "allow-once"))
                 \/ DecisionSucceeds(aid)]_vars

\* C18 in the states where the pending approval is the ledger's front
C18_WhenPendingIsFront ==
    [][\A aid \in 1..2 :
          (C19_PendingIsFront /\ aid \notin LedgerIds
               /\ OnMessage(Resolved(aid, "allow-once")))
              => UNCHANGED ledgerVars]_vars


(***************************************************************************)
(* Claims about the stages of the pipeline (SpecPipeline).                 *)
(***************************************************************************)
\* the events logged so far are exactly a tool start of some agent and
\* then, when ended, a tool end of the same agent
StartedOnly == Len(env.trail) = 1 /\ env.trail[1].kind = "ToolStarted"

StartedThenEnded ==
    /\ Len(env.trail) = 2
    /\ env.trail[1].kind = "ToolStarted"
    /\ env.trail[2].kind = "ToolEnded"
    /\ env.trail[2].agent = env.trail[1].agent

\* C21: after a tool start alone the stage is execution, the agent is
\* executing and the activity log has one entry; after the tool end of the
\* same agent the agent is idle again, the activity log still has one
\* entry, and the stage is reflection while the dwell runs and idle once
\* it has elapsed.
C21_ToolRunScenario ==
    /\ StartedOnly =>
           /\ pipelineActive = "execution"
           /\ workforce[env.trail[1].agent].task # "Idle"
           /\ workforce[env.trail[1].agent].ping
           /\ Len(skills) = 1
    /\ StartedThenEnded =>
           /\ workforce[env.trail[1].agent] = [task |-> "Idle", ping |-> FALSE]
           /\ Len(skills) = 1
           /\ skills[1].user = env.trail[1].agent
           /\ IF stageTimers = << >> THEN pipelineActive = "idle"
              ELSE /\ pipelineActive = "reflection"
                   /\ Len(stageTimers) = 1
                   /\ stageTimers[1].left <= ToolEndDwell

\* the run of the tool is over and the dwell has elapsed
C21_Witness ==
    /\ StartedThenEnded
    /\ stageTimers = << >>
    /\ pipelineActive = "idle"


Stages == {"idle", "consultation", "assignment", "execution", "reflection",
           "delivery"}

\* C22: the stage is always one of the six stages, and a step that changes
\* the stage either enters one of the five working stages or returns to
\* idle from reflection or from delivery, never from another stage.
C22_DefinedEdgesOnly ==
    /\ [](pipelineActive \in Stages)
    /\ [][(pipelineActive' # pipelineActive /\ pipelineActive' = "idle")
             => pipelineActive \in {"reflection", "delivery"}]_vars


(***************************************************************************)
(* Claims about approvals and the run-finish rule (SpecApprovals).         *)
(***************************************************************************)
\* C23: a run-finish line sets the stage to delivery at once and leaves no
\* pending approval, neither the current one nor an entry of the ledger.
C23_RunFinishClearsApprovals ==
    [][\A log \in ApprovalLines :
          (EventKind(log) = "RunFinished" /\ processLogLine(log))
             => /\ pipelineActive' = "delivery"
                /\ approvalPending' = NoApproval
                /\ approvals' = << >>]_vars


(***************************************************************************)
(* Claims about the gateway's approval events (SpecLedger).                *)
(***************************************************************************)
ResolvedTexts == {ResolvedText(d) : d \in Decisions \cup {"none"}}

\* C24: an exec.approval.resolved event removes the ledger entry with its
\* id, keeps every other entry in its place relative to the others, and
\* leaves the stage, the agents and the activity log as they were.
C24_ResolvedRemovesOneEntry ==
    [][\A aid \in 0..(env.fresh + 1), d \in Decisions \cup {"none"} :
          OnMessage(Resolved(aid, d))
             => /\ \A i \in 1..Len(approvals') : approvals'[i].id # aid
                /\ approvals' = SelectSeq(approvals, LAMBDA a : a.id # aid)
                /\ UNCHANGED <<pipelineActive, workforce, skills>>]_vars

\* a resolution has taken one entry out of a ledger that holds others
C24_Witness ==
    /\ gandalfAssignment \in ResolvedTexts
    /\ env.fresh <= ApprovalsCap
    /\ Len(approvals) = env.fresh - 1
    /\ Len(approvals) >= 2
    /\ pipelineActive = "assignment"


(***************************************************************************)
(* Claims about the activity log (SpecSkills).                             *)
(***************************************************************************)
\* C25: a tool-start line sets the stage to execution, marks the resolved
\* agent active and puts one entry for it at the front of the activity
\* log, the earlier entries following in their order and the oldest one
\* leaving when there would be more than ten; the log never has more than
\* ten entries.
C25_ToolStartPrepends ==
    /\ [](Len(skills) <= SkillsCap)
    /\ [][\A log \in StartLines :
             processLogLine(log)
                => /\ pipelineActive' = "execution"
                   /\ workforce'[CouncilId(log)].ping
                   /\ workforce'[CouncilId(log)].task # "Idle"
                   /\ Len(skills') = Min(Len(skills) + 1, SkillsCap)
                   /\ skills'[1].user = CouncilId(log)
                   /\ \A i \in 2..Len(skills') : skills'[i] = skills[i-1]]_vars

\* the activity log is full and an entry has been evicted
C25_Witness ==
    /\ Len(skills) = SkillsCap
    /\ env.starts > SkillsCap
    /\ pipelineActive = "execution"


(***************************************************************************)
(* Claims about failed polls (SpecRetry).                                  *)
(***************************************************************************)
FailedStep ==
    \/ \E i \in 1..Len(polls) : PollStat(i, TRUE)
    \/ \E i \in 1..Len(polls) : PollOpen(i, TRUE)
    \/ \E i \in 1..Len(polls) : PollRead(i, TRUE)
    \/ \E i \in 1..Len(polls) : ZeroBytes(i) /\ PollRead(i, FALSE)

\* C26: a poll that fails at stat, open or read, or reads zero bytes,
\* leaves the offset as it was and emits no line, and while the file has
\* bytes beyond the offset a later poll reads from that offset (unless the
\* file is cut down to the offset first).
C26_FailedPollRetried ==
    /\ [][FailedStep => UNCHANGED <<offset, emitted>>]_vars
    /\ [][\A i \in 1..Len(polls) :
             (PollRead(i, FALSE) /\ ~ZeroBytes(i))
                => polls[i].position = offset]_vars
    /\ (env.poll = "failed" /\ offset < Len(file))
           ~> (env.poll = "recovered" \/ Len(file) <= offset)

\* after a failed poll a later poll has read the file to its end
C26_Witness ==
    /\ env.poll = "recovered"
    /\ offset = Len(file)
    /\ emitted # << >>


(***************************************************************************)
(* Claims about messages that are both event and reply (SpecEnvelope).     *)
(***************************************************************************)
\* C27: a gateway message whose id is not that of a pending call is taken
\* as an event even when it carries a numeric id and reply fields: an
\* approval request enters the ledger at the front and sets the stage to
\* assignment, an approval resolution leaves no entry with its id; and
\* only a message whose id is pending settles a call.
C27_UnknownIdIsEvent ==
    [][\A msg \in Envelopes :
          (OnMessage(msg) /\ msg.id \notin rpcPending)
             => /\ calls' = calls
                /\ msg.event = "exec.approval.requested"
                      => /\ approvals' # << >>
                         /\ approvals'[1].id = msg.aid
                         /\ pipelineActive' = "assignment"
                /\ msg.event = "exec.approval.resolved"
                      => \A i \in 1..Len(approvals') :
                             approvals'[i].id # msg.aid]_vars


(***************************************************************************)
(* Claims about the agent a log line is attributed to (SpecAgents).        *)
(***************************************************************************)
\* the agents that the explicit fields of a line identify
ExplicitAgents(log) ==
    (IF "auditor" \in log.metaName THEN {"celebrimbor"} ELSE {})
    \cup (IF "main" \in log.metaName THEN {"samwise"} ELSE {})
    \cup (IF log.sessionId = MainSession THEN {"samwise"} ELSE {})
    \cup (IF log.sessionId = SubagentSession THEN {"legolas"} ELSE {})

\* C28: when the meta or session field of a tool-start line identifies one
\* agent, that agent is marked active and named in the activity log,
\* whatever keyword the message text contains.
C28_ExplicitFieldWins ==
    [][\A log \in AgentLines, a \in Agents :
          (IsToolStart(log) /\ ExplicitAgents(log) = {a} /\ processLogLine(log))
             => /\ workforce'[a].ping
                /\ skills'[1].user = a]_vars


\* C29: the agent resolved for a log line is always one of the agents of
\* the workforce map, the default agent when the line carries no hint, so
\* a tool-start line always marks its agent active and a tool-end line
\* always sets its agent idle.
C29_ResolutionIsTotal ==
    /\ [](\A log \in AgentLines \cup LogLines :
             /\ CouncilId(log) \in DOMAIN workforce
             /\ (ExplicitAgents(log) = {} /\ Patterns(log.msg) \cap
                    {"main", "subagent"} = {}) => CouncilId(log) = "celebrimbor")
    /\ [][\A log \in AgentLines :
             processLogLine(log)
                => /\ IsToolStart(log) =>
                          /\ workforce'[CouncilId(log)].ping
                          /\ skills'[1].user \in DOMAIN workforce'
                   /\ IsToolEnd(log) =>
                          workforce'[CouncilId(log)] =
                              [task |-> "Idle", ping |-> FALSE]]_vars

\* every agent a hint can name has been marked active or set idle again
C29_Witness ==
    /\ workforce["legolas"].ping
    /\ workforce["legolas"].task = "Executing exec..."
    /\ skills # << >>
    /\ skills[1].user = "legolas"


(***************************************************************************)
(* Claims about lines that match several rules (SpecTies).                 *)
(***************************************************************************)
\* C30: a line whose text matches an approval-required pattern and the
\* tool-start pattern has the approval effect only: the stage becomes
\* assignment and the attention flag is set, no agent is marked active and
\* nothing is added to the activity log.
C30_ApprovalBeforeTool ==
    [][processLogLine(TieLine)
          => /\ pipelineActive' = "assignment"
             /\ gandalfPing'
             /\ UNCHANGED <<workforce, skills>>]_vars


(***************************************************************************)
(* Claims about polls in flight together (SpecOverlap).                    *)
(***************************************************************************)
\* the number of characters in the lines of a sequence of lines
RECURSIVE SumLen(_)
SumLen(lines) ==
    IF lines = << >> THEN 0 ELSE Len(Head(lines)) + SumLen(Tail(lines))

\* the number of characters of s that are no newline
NonNL(s) == Len(SelectSeq(s, LAMBDA c : c # NL))

\* C31: with the callbacks of two polls interleaved, the offset never
\* passes the end of the file, and the characters emitted are, once each,
\* those between the starting size and the offset: no range is emitted
\* twice and none is skipped.
C31_PollsSerialized ==
    /\ offset <= Len(file)
    /\ SumLen(emitted) = NonNL(SubSeq(file, startSize + 1, offset))


(***************************************************************************)
(* Claims about the gateway connection (SpecReconnect).                    *)
(***************************************************************************)
\* C32: at any moment there is either a socket, connecting or open, and no
\* reconnect timer, or no socket and exactly one reconnect timer; a socket
\* is only ever created when there is none; and gwConnected is true only
\* while the socket is open.
C32_OneSocketOrOneTimer ==
    /\ [](\/ gwSocket \in {"connecting", "open"} /\ gwTimers = << >>
          \/ gwSocket = "none" /\ Len(gwTimers) = 1)
    /\ [](gwConnected => gwSocket = "open")
    /\ [][(gwSocket' = "connecting" /\ gwSocket' # gwSocket)
             => (gwSocket = "none" /\ Len(gwTimers) = 1)]_vars

\* a close has left no socket and the one timer of the reconnect
C32_Witness ==
    /\ gwSocket = "none"
    /\ ~gwConnected
    /\ gwTimers = <<ReconnectDelay>>


(***************************************************************************)
(* Claims about the attention flag (SpecAttention).                        *)
(***************************************************************************)
\* C33: once the attention flag is set, no step of the server (event, log
\* line, timer, approval resolution, operator's decision or its answer)
\* clears it.
C33_PingIsMonotonic == [][gandalfPing => gandalfPing']_vars

\* the flag is still set after the approval was decided on with success and
\* the stage has gone back to idle
C33_Witness ==
    /\ gandalfPing
    /\ approvalPending = NoApproval
    /\ pipelineActive = "idle"
    /\ \E id \in DOMAIN calls : calls[id].state = "resolved"


(***************************************************************************)
(* Claims about the start of the log watcher (SpecStartup).                *)
(***************************************************************************)
\* C34: the watcher starts at the end of the file: the offset is never
\* below the size the file had at load, no read starts below that size,
\* so that no byte present at load is emitted, and the offset never
\* decreases.
C34_StartsAtEndOfFile ==
    /\ [](offset >= startSize)
    /\ [][offset' >= offset]_vars
    /\ [][\A i \in 1..Len(polls) :
             PollRead(i, FALSE) => polls[i].position >= startSize]_vars


\* no line is emitted while nothing has been appended since the load
C34_NothingOldEmitted == Appended = << >> => emitted = << >>

====
